---- MODULE Spec2Model ----
(***************************************************************************)
(* smart-life-api: bearer-token authentication (auth.js) and the route     *)
(* handlers that bind the verified principal to a pooled PostgreSQL        *)
(* connection (app.current_user_id) before querying row-owned tables.      *)
(***************************************************************************)
EXTENDS Integers, Sequences, FiniteSets, TLC

VARIABLES req, conn, db, clock, issued, reply

vars == <<req, conn, db, clock, issued, reply>>

\* the users router's state: the database's users and profiles tables, the
\* clock, the token login signed last and the router's last answer
accounts == <<db, clock, issued, reply>>

(***************************************************************************)
(* Bounds and finite input sets                                            *)
(***************************************************************************)

\* number of connections the pool may hold (pg-pool's max)
PoolSize == 1

\* longest Authorization header, in symbols, drawn by SpecAuth
MaxHeaderLen == 3

\* ticks a request is followed for while it waits in pool.connect()
MaxWaitTicks == 4

\* request slots served concurrently
Req == {1, 2}

Conn == 1..PoolSize

\* user ids (users.id) of the two tenants
Principals == {"A", "B"}

\* req.headers.authorization of a request that carries no such header
NoHeader == <<"undefined">>
\* req.user before the middleware has set it
NoUser == [id |-> "undefined", email |-> "undefined"]
NoConn == 0
Unset == "unset"
NoBody == "none"

(***************************************************************************)
(* Authorization header: a string is a sequence of symbols; SP is the      *)
(* space character, every other symbol is a run of non-space characters.   *)
(***************************************************************************)

SP == " "

\* tokens: signed for A / B with the server secret and unexpired, expired,
\* signed with another secret, and not a JWT at all
TokenSymbols == {"tokA", "tokB", "tokExpired", "tokBadSig", "garbage"}

Symbols == {SP, "Bearer", "bearer"} \cup TokenSymbols

\* String.prototype.split(" "): one part more than there are separators
RECURSIVE Split(_)
Split(s) ==
    IF s = <<>> THEN << <<>> >>
    ELSE LET rest == Split(Tail(s))
         IN  IF Head(s) = SP
             THEN << <<>> >> \o rest
             ELSE << <<Head(s)>> \o rest[1] >> \o Tail(rest)

\* payload signed by POST /login: { id, email }
Payload(id) == [id |-> id, email |-> id \o "@x.com"]

\* jwt.verify(token, secret): the payload, or the error it throws
JwtVerify(token) ==
    IF token = <<>> THEN [ok |-> FALSE, message |-> "jwt must be provided"]
    ELSE IF token = <<"tokA">> THEN [ok |-> TRUE, payload |-> Payload("A")]
    ELSE IF token = <<"tokB">> THEN [ok |-> TRUE, payload |-> Payload("B")]
    ELSE IF token = <<"tokExpired">> THEN [ok |-> FALSE, message |-> "jwt expired"]
    ELSE IF token = <<"tokBadSig">> THEN [ok |-> FALSE, message |-> "invalid signature"]
    ELSE [ok |-> FALSE, message |-> "jwt malformed"]

\* what one run of the middleware does: the response it sends (status 0: none),
\* req.user, and how often it called jwt.verify and next()
AuthResult(status, error, user, verifyCalls, nextCalls) ==
    [status |-> status, error |-> error, user |-> user,
     verifyCalls |-> verifyCalls, nextCalls |-> nextCalls]

AuthReject(message, verifyCalls) ==
    AuthResult(401, message, NoUser, verifyCalls, 0)

AuthVerified(payload) == AuthResult(0, NoBody, payload, 1, 1)

\* the catch block answers 401 and the request is passed on all the same
authMiddlewareNextOnFailure(authHeader) ==
    IF authHeader = NoHeader \/ authHeader = <<>>
    THEN AuthReject("Missing Authorization header", 0)
    ELSE LET parts == Split(authHeader)
         IN  IF Len(parts) # 2 \/ parts[1] # <<"Bearer">>
             THEN AuthReject("Invalid Authorization header format", 0)
             ELSE LET v == JwtVerify(parts[2])
                  IN  IF v.ok THEN AuthVerified(v.payload)
                      ELSE AuthResult(401, "Invalid token: " \o v.message,
                                      NoUser, 1, 1)

authMiddleware(authHeader) ==
    IF authHeader = NoHeader \/ authHeader = <<>>
    THEN AuthReject("Missing Authorization header", 0)
    ELSE LET parts == Split(authHeader)
         IN  IF Len(parts) # 2 \/ parts[1] # <<"Bearer">>
             THEN AuthReject("Invalid Authorization header format", 0)
             ELSE LET v == JwtVerify(parts[2])
                  IN  IF v.ok THEN AuthVerified(v.payload)
                      ELSE AuthReject("Invalid token: " \o v.message, 1)

(***************************************************************************)
(* Routes guarded by authMiddleware                                        *)
(***************************************************************************)

\* how a handler binds req.user.id, whether it has a catch block (catchStatus
\* 0: try/finally only) and what it answers
Handler(bind, catchStatus, catchError, okStatus) ==
    [bind |-> bind, catchStatus |-> catchStatus, catchError |-> catchError,
     okStatus |-> okStatus]

\* res.status(400).json({ error: err.message })
ErrMessage == "err.message"

GetNotifications == Handler("SET", 0, NoBody, 200)
PatchNotificationRead == Handler("SET", 0, NoBody, 200)
GetReminders == Handler("set_config_local", 500, "Internal server error", 200)
PostReminders == Handler("SET", 0, NoBody, 201)
PatchReminderComplete == Handler("SET", 0, NoBody, 200)
GetProfile == Handler("SET", 500, "Failed to fetch profile", 200)
PutProfile == Handler("SET", 500, "Failed to update profile", 200)
GetFamily == Handler("SET", 0, NoBody, 200)
PostFamily == Handler("SET", 400, ErrMessage, 201)
PutFamily == Handler("SET", 0, NoBody, 200)
DeleteFamily == Handler("SET", 0, NoBody, 200)
\* pool.query on whichever pool member is free, no bind statement
GetUsers == Handler("none", 500, "Internal server error", 200)

Routes ==
    {"GET /notifications", "PATCH /notifications/:id/read", "GET /reminders",
     "POST /reminders", "PATCH /reminders/:id/complete", "GET /profile",
     "PUT /profile", "GET /family", "POST /family", "PUT /family/:id",
     "DELETE /family/:id", "GET /users"}

RouteDef(route) ==
    CASE route = "GET /notifications" -> GetNotifications
      [] route = "PATCH /notifications/:id/read" -> PatchNotificationRead
      [] route = "GET /reminders" -> GetReminders
      [] route = "POST /reminders" -> PostReminders
      [] route = "PATCH /reminders/:id/complete" -> PatchReminderComplete
      [] route = "GET /profile" -> GetProfile
      [] route = "PUT /profile" -> PutProfile
      [] route = "GET /family" -> GetFamily
      [] route = "POST /family" -> PostFamily
      [] route = "PUT /family/:id" -> PutFamily
      [] route = "DELETE /family/:id" -> DeleteFamily
      [] route = "GET /users" -> GetUsers

\* handlers that check a client out themselves (const client = await pool.connect())
UsesConnect(route) == RouteDef(route).bind # "none"

\* the resource query sent before the bind statement
ProgramQueryFirst(route) ==
    IF RouteDef(route).bind = "none" THEN <<"query">> ELSE <<"query", "bind">>

\* the statements a handler sends, in order
Program(route) ==
    IF RouteDef(route).bind = "none" THEN <<"query">> ELSE <<"bind", "query">>

(***************************************************************************)
(* PostgreSQL session state of one pooled connection                       *)
(***************************************************************************)

\* app.current_user_id: the session-level value and the value local to the
\* transaction in progress
FreshGuc == [session |-> Unset, local |-> Unset]

\* SET app.current_user_id = v
SetSession(guc, v) == [guc EXCEPT !.session = v]

\* SELECT set_config('app.current_user_id', v, true)
SetConfigLocal(guc, v) == [guc EXCEPT !.local = v]

\* no handler sends BEGIN: every statement is its own transaction, and the
\* transaction-local value is dropped when it ends
CommitStatement(guc) == [guc EXCEPT !.local = Unset]

\* current_setting('app.current_user_id'), what a row-ownership policy reads
CurrentSetting(guc) == IF guc.local # Unset THEN guc.local ELSE guc.session

\* the bind statement of a handler, run to the end of its transaction
ExecBind(bind, guc, v) ==
    CommitStatement(IF bind = "SET" THEN SetSession(guc, v)
                    ELSE SetConfigLocal(guc, v))

\* text of the error a failed statement raises
DbErrors == {"syntax error", "Connection terminated unexpectedly"}

(***************************************************************************)
(* Requests                                                                *)
(***************************************************************************)

\* the headers requests arrive with: absent, valid for A and for B, expired,
\* wrong signature, empty token, wrong scheme keyword
Headers ==
    {NoHeader, <<"Bearer", SP, "tokA">>, <<"Bearer", SP, "tokB">>,
     <<"Bearer", SP, "tokExpired">>, <<"Bearer", SP, "tokBadSig">>,
     <<"Bearer", SP>>, <<"bearer", SP, "tokA">>}

ErrorBody(message) == [json |-> "error", error |-> message]
DataBody == [json |-> "data", error |-> NoBody]
EmptyBody == [json |-> "none", error |-> NoBody]

\* req.params and req.body of a request whose handler reads neither
NoInput == [none |-> TRUE]

\* a slot with no request in it
NoRequest ==
    [pc |-> "idle", header |-> NoHeader, route |-> "none", user |-> NoUser,
     verifyCalls |-> 0, nextCalls |-> 0,
     client |-> NoConn, ip |-> 0, stmts |-> <<>>,
     checkouts |-> 0, releases |-> 0,
     status |-> 0, body |-> EmptyBody, responses |-> 0,
     rejected |-> FALSE, aborted |-> FALSE,
     events |-> <<>>, waited |-> 0, input |-> NoInput]

\* res.status(status).json(body)
Respond(q, status, body) ==
    [q EXCEPT !.status = status, !.body = body, !.responses = @ + 1,
              !.events = Append(@, "respond")]

\* the bind statement given an id the caller sent (req.params, req.body)
BindParamFromRequest(q, untrusted) == untrusted

\* the value the bind statement is given: [req.user.id]
BindParam(q, untrusted) == q.user.id

\* the bind statement's error swallowed
AfterBindIgnoringError(ok) == "next"

\* where the handler goes once the bind statement has returned or raised
AfterBind(ok) == IF ok THEN "next" ELSE "throw"

\* try { ... res.json(rows) }
OnSuccess(q) == Respond(q, RouteDef(q.route).okStatus, DataBody)

\* catch (err) { res.status(...).json({ error: ... }) }, or no catch block:
\* the handler's promise rejects
OnThrow(q, err) ==
    LET h == RouteDef(q.route)
    IN  IF h.catchStatus # 0
        THEN Respond(q, h.catchStatus,
                     ErrorBody(IF h.catchError = ErrMessage THEN err
                               ELSE h.catchError))
        ELSE [q EXCEPT !.rejected = TRUE]

\* client.release() at the end of the try block instead of in finally
ReleaseOnlyOnSuccess(threw) == ~threw

\* finally { client.release() } runs whether or not the try block threw
ReleaseOn(threw) == TRUE

\* what the caller can see happen, in order: the finally block runs before an
\* uncaught error leaves the handler
Finally(q, threw) ==
    [q EXCEPT !.pc = "done",
              !.releases = IF ReleaseOn(threw) THEN @ + 1 ELSE @,
              !.events = (IF ReleaseOn(threw) THEN Append(@, "release") ELSE @)
                         \o (IF q.rejected THEN <<"reject">> ELSE <<>>)]

\* client.release(): back to the pool, session state untouched
Release(cn) == [cn EXCEPT !.busy = FALSE]

(***************************************************************************)
(* Users router: the users and profiles tables, bcrypt, and the tokens     *)
(* POST /login signs                                                       *)
(***************************************************************************)

\* clock ticks per second: jsonwebtoken reads the clock in whole seconds
TicksPerSecond == 2

\* last clock reading followed, in ticks
MaxClock == 5

\* expiresIn of a login token, in seconds of the model's clock
\* (process.env.JWT_EXPIRES_IN || "1d")
ExpiresIn == 1

\* users.id values: two seeded accounts and one POST /users can create
UserIds == {1, 2, 3}
Emails == {"a@x.com", "b@x.com", "c@x.com"}
Passwords == {"pw1", "pw2"}
Names == {"Ann"}
Avatars == {"a.png"}

\* a field the request body does not carry
Undefined == "undefined"
\* a field sent as the empty string
Empty == ""

\* JavaScript truthiness of a string-valued body field
Truthy(v) == v # Undefined /\ v # Empty

\* SQL NULL in a password_hash position
Null == [alg |-> "null"]

\* a password's characters themselves, were they put in the column
Plain(password) == [alg |-> "plain", of |-> password]

\* bcrypt.hash(password, rounds): a digest that is not the password
BcryptHash(password, rounds) ==
    [alg |-> "bcrypt", rounds |-> rounds, of |-> password]

\* bcrypt.compare(password, hash)
BcryptCompare(password, hash) ==
    hash.alg = "bcrypt" /\ hash.of = password

BcryptRounds == 10

\* POST /users stores the submitted characters
PostPasswordPlain(password) == Plain(password)

\* const password_hash = await bcrypt.hash(password, 10)
PostPasswordHash(password) == BcryptHash(password, BcryptRounds)

\* password ? await bcrypt.hash(password, 10) : null
PutPasswordParam(password) ==
    IF Truthy(password) THEN BcryptHash(password, BcryptRounds) ELSE Null

\* SET column = $n, without COALESCE
CoalesceOverwrite(param, column) == param

\* COALESCE($n, column)
Coalesce(param, column) == IF param # Undefined THEN param ELSE column

\* CASE WHEN $3 IS NOT NULL THEN $3 ELSE password_hash END
CasePasswordHash(param, column) == IF param # Null THEN param ELSE column

UserRow(email, password_hash, full_name, avatar_url) ==
    [email |-> email, password_hash |-> password_hash, full_name |-> full_name,
     avatar_url |-> avatar_url]

\* SELECT id FROM users WHERE email = $1
SelectIdByEmail(users, email) ==
    {id \in DOMAIN users : users[id].email = email}

\* the id the users table gives its next row
NextId(users) == CHOOSE id \in UserIds \ DOMAIN users :
                    \A other \in UserIds \ DOMAIN users : id <= other

\* the rows login's query returns: users JOIN profiles ON u.id = p.user_id
\* WHERE u.email = $1
SelectLoginRows(d, email) ==
    {[id |-> id, email |-> d.users[id].email,
      full_name |-> d.users[id].full_name,
      password_hash |-> d.users[id].password_hash,
      plan_type |-> d.profiles[id].plan_type] :
        id \in {u \in DOMAIN d.users :
                  d.users[u].email = email /\ u \in DOMAIN d.profiles}}

\* process.env.JWT_SECRET, and a key the server does not hold
JWT_SECRET == "JWT_SECRET"
OtherSecret == "other secret"

\* HMAC of the payload under a key
Signature(payload, secret) == [key |-> secret, over |-> payload]

\* the clock in whole seconds: Math.floor(Date.now() / 1000)
Seconds(ticks) == ticks \div TicksPerSecond

\* jwt.sign(payload, secret, { expiresIn }) at clock reading now
JwtSign(payload, secret, options, now) ==
    LET claims == [id |-> payload.id, email |-> payload.email,
                   iat |-> Seconds(now),
                   exp |-> Seconds(now) + options.expiresIn]
    IN  [payload |-> claims, sig |-> Signature(claims, secret)]

\* the payload signed without the row's email
LoginPayloadNoEmail(user) == [id |-> user.id, email |-> user.full_name]

\* { id: user.id, email: user.email }
LoginPayload(user) == [id |-> user.id, email |-> user.email]

\* { expiresIn: process.env.JWT_EXPIRES_IN || "1d" }
SignOptions == [expiresIn |-> ExpiresIn]

\* jwt.verify called with { ignoreExpiration: true }
VerifyIgnoringExpiration == [ignoreExpiration |-> TRUE]

\* jwt.verify(token, secret) is called without options
VerifyOptions == [ignoreExpiration |-> FALSE]

\* jwt.verify(token, secret) at clock reading now: the signature is checked
\* first, then exp against the clock in whole seconds
JwtVerifyAt(token, secret, now) ==
    IF token.sig # Signature(token.payload, secret)
    THEN [ok |-> FALSE, message |-> "invalid signature"]
    ELSE IF ~VerifyOptions.ignoreExpiration
            /\ Seconds(now) >= token.payload.exp
    THEN [ok |-> FALSE, message |-> "jwt expired"]
    ELSE [ok |-> TRUE, payload |-> token.payload]

\* authMiddleware on the header "Bearer <token>" at clock reading now
authMiddlewareAt(token, now) ==
    LET v == JwtVerifyAt(token, JWT_SECRET, now)
    IN  IF v.ok THEN AuthVerified(v.payload)
        ELSE AuthReject("Invalid token: " \o v.message, 1)

\* the accounts the database is seeded with, each with its profiles row
SeedUsers ==
    (1 :> UserRow("a@x.com", BcryptHash("pw1", BcryptRounds), "Ann", "a.png"))
    @@ (2 :> UserRow("b@x.com", BcryptHash("pw2", BcryptRounds), "Ann",
                     "a.png"))

SeedProfiles == (1 :> [plan_type |-> "free"]) @@ (2 :> [plan_type |-> "pro"])

\* rows of a row-owned table (reminders, notifications, family_members):
\* the owner's user id and the column the update sets
OwnedRow(owner, updated) == [owner |-> owner, updated |-> updated]

SeedItems == (1 :> OwnedRow("A", FALSE)) @@ (2 :> OwnedRow("B", FALSE))

\* no request has been answered by the users router yet
NoReply == [op |-> "none"]

Init ==
    /\ req = [r \in Req |-> NoRequest]
    /\ conn = [c \in Conn |-> [busy |-> FALSE, guc |-> FreshGuc]]
    /\ db = [users |-> SeedUsers, profiles |-> SeedProfiles,
             items |-> SeedItems]
    /\ clock = 0
    /\ issued = {}
    /\ reply = NoReply

\* a request arrives at a guarded route: authMiddleware runs, and on next()
\* the handler runs up to its first await
ArriveAt(r, headers, routes, inputs) ==
    /\ req[r].pc = "idle"
    /\ \E h \in headers, rt \in routes, input \in inputs :
          LET a == authMiddleware(h)
              q == [NoRequest EXCEPT
                      !.header = h, !.route = rt, !.user = a.user,
                      !.input = input,
                      !.verifyCalls = a.verifyCalls,
                      !.nextCalls = a.nextCalls,
                      !.pc = IF a.nextCalls > 0 THEN "connect" ELSE "done"]
          IN  req' = [req EXCEPT ![r] =
                        IF a.status # 0
                        THEN Respond(q, a.status, ErrorBody(a.error))
                        ELSE q]
    /\ UNCHANGED <<conn, accounts>>

ArriveWith(r, headers) == ArriveAt(r, headers, Routes, {NoInput})

Arrive(r) == ArriveWith(r, Headers)

\* the pool resolves with a member whether or not a request holds it
AnyClient(cn) == TRUE

\* the pool resolves a checkout only with a member no request holds
IdleClient(cn) == ~cn.busy

\* const client = await pool.connect() resolves with an idle pool member
Connect(r, c) ==
    /\ req[r].pc = "connect"
    /\ UsesConnect(req[r].route)
    /\ IdleClient(conn[c])
    /\ conn' = [conn EXCEPT ![c].busy = TRUE]
    /\ req' = [req EXCEPT ![r].pc = "run", ![r].client = c,
                          ![r].checkouts = @ + 1, ![r].waited = 0]
    /\ UNCHANGED accounts

\* pool.query(...) of GET /users takes an idle pool member for its one query
PoolQueryCheckout(r, c) ==
    /\ req[r].pc = "connect"
    /\ ~UsesConnect(req[r].route)
    /\ IdleClient(conn[c])
    /\ conn' = [conn EXCEPT ![c].busy = TRUE]
    /\ req' = [req EXCEPT ![r].pc = "run", ![r].client = c,
                          ![r].checkouts = @ + 1, ![r].waited = 0]
    /\ UNCHANGED accounts

\* pool.connect() rejects: outside the try block the handler's promise
\* rejects; pool.query rejects inside GET /users' try block
ConnectFail(r) ==
    /\ req[r].pc = "connect"
    /\ \E err \in DbErrors :
          req' = [req EXCEPT ![r] =
                    [(IF UsesConnect(req[r].route)
                      THEN [req[r] EXCEPT !.rejected = TRUE,
                                          !.events = Append(@, "reject")]
                      ELSE OnThrow(req[r], err)) EXCEPT !.pc = "done"]]
    /\ UNCHANGED <<conn, accounts>>

\* the handler's state and its connection after a statement returned (more
\* statements to come), after the last one returned, or after one raised
Continue(r, q, cn, outcome, err) ==
    LET c == req[r].client
        last == q.ip = Len(Program(q.route))
    IN  IF outcome = "next" /\ ~last
        THEN /\ req' = [req EXCEPT ![r] = q]
             /\ conn' = [conn EXCEPT ![c] = cn]
             /\ UNCHANGED accounts
        ELSE LET threw == outcome = "throw"
                 \* pool.query has released its client when its promise
                 \* settles; a handler's own finally block runs last
                 done == IF UsesConnect(q.route)
                         THEN Finally(IF threw THEN OnThrow(q, err)
                                      ELSE OnSuccess(q), threw)
                         ELSE IF threw THEN OnThrow(Finally(q, threw), err)
                         ELSE OnSuccess(Finally(q, threw))
             IN  /\ req' = [req EXCEPT ![r] = done]
                 /\ conn' = [conn EXCEPT ![c] =
                               IF ReleaseOn(threw) THEN Release(cn) ELSE cn]
                 /\ UNCHANGED accounts

\* await client.query('SET app.current_user_id = $1', [req.user.id]), or
\* await client.query('SELECT set_config($1, $2, true)', [..., req.user.id])
Bind(r) ==
    /\ req[r].pc = "run"
    /\ Program(req[r].route)[req[r].ip + 1] = "bind"
    /\ \E ok \in BOOLEAN, untrusted \in Principals, err \in DbErrors :
          LET c == req[r].client
              v == BindParam(req[r], untrusted)
              q == [req[r] EXCEPT
                      !.ip = @ + 1,
                      !.stmts = Append(@, [op |-> "bind", conn |-> c,
                                           ok |-> ok, value |-> v,
                                           setting |-> v])]
              cn == IF ok
                    THEN [conn[c] EXCEPT
                            !.guc = ExecBind(RouteDef(q.route).bind, @, v)]
                    ELSE conn[c]
          IN  Continue(r, q, cn, AfterBind(ok), err)

\* await client.query(<resource query>), or the query of pool.query
Query(r) ==
    /\ req[r].pc = "run"
    /\ Program(req[r].route)[req[r].ip + 1] = "query"
    /\ \E ok \in BOOLEAN, err \in DbErrors :
          LET c == req[r].client
              q == [req[r] EXCEPT
                      !.ip = @ + 1,
                      !.stmts = Append(@, [op |-> "query", conn |-> c,
                                           ok |-> ok, value |-> Unset,
                                           setting |->
                                             CurrentSetting(conn[c].guc)])]
          IN  Continue(r, q, conn[c], IF ok THEN "next" ELSE "throw", err)

\* the caller closes the request while the handler holds a connection; the
\* async handler keeps running
Abort(r) ==
    /\ req[r].pc = "run"
    /\ ~req[r].aborted
    /\ req' = [req EXCEPT ![r].aborted = TRUE]
    /\ UNCHANGED <<conn, accounts>>

\* the request is over; the slot takes the next one
Recycle(r) ==
    /\ req[r].pc = "done"
    /\ req' = [req EXCEPT ![r] = NoRequest]
    /\ UNCHANGED <<conn, accounts>>

Next ==
    \E r \in Req :
        \/ Arrive(r)
        \/ \E c \in Conn : Connect(r, c)
        \/ \E c \in Conn : PoolQueryCheckout(r, c)
        \/ ConnectFail(r)
        \/ Bind(r)
        \/ Query(r)
        \/ Abort(r)
        \/ Recycle(r)

Spec == Init /\ [][Next]_vars

(***************************************************************************)
(* authMiddleware alone, on every header of up to MaxHeaderLen symbols     *)
(***************************************************************************)

AllHeaders ==
    {NoHeader} \cup UNION {[1..n -> Symbols] : n \in 0..MaxHeaderLen}

ArriveAuth == ArriveWith(1, AllHeaders)

\* the request leaves the slot, whatever became of it
ForgetAuth ==
    /\ req[1].pc # "idle"
    /\ req' = [req EXCEPT ![1] = NoRequest]
    /\ UNCHANGED <<conn, accounts>>

NextAuth == ArriveAuth \/ ForgetAuth

SpecAuth == Init /\ [][NextAuth]_vars

(***************************************************************************)
(* The pool of dbclient.js with its wait window: a request queued in       *)
(* pool.connect() is failed once the window has passed                     *)
(***************************************************************************)

\* the pool's wait window (connectionTimeoutMillis), in ticks
WaitWindow == 2

\* the error the pool fails a waiter with
PoolExhausted == "timeout exceeded when trying to connect"

\* a pool built without a wait window never fails a waiter
NeverTimedOut(waited) == FALSE

\* the waiter's window has passed
TimedOut(waited) == waited >= WaitWindow

PoolHeaders == {<<"Bearer", SP, "tokA">>, <<"Bearer", SP, "tokB">>}

ArrivePool(r) == ArriveWith(r, PoolHeaders)

\* time passes for a request queued in pool.connect() or pool.query()
WaitTick(r) ==
    /\ req[r].pc = "connect"
    /\ \A c \in Conn : conn[c].busy
    /\ ~TimedOut(req[r].waited)
    /\ req[r].waited < MaxWaitTicks
    /\ req' = [req EXCEPT ![r].waited = @ + 1]
    /\ UNCHANGED <<conn, accounts>>

\* the pool rejects the waiter's pool.connect(): outside the try block the
\* handler's promise rejects; GET /users catches pool.query's rejection
PoolTimeout(r) ==
    /\ req[r].pc = "connect"
    /\ TimedOut(req[r].waited)
    /\ LET q == [req[r] EXCEPT !.events = Append(@, "pool_exhausted")]
       IN  req' = [req EXCEPT ![r] =
                     [(IF UsesConnect(q.route)
                       THEN [q EXCEPT !.rejected = TRUE,
                                      !.events = Append(@, "reject")]
                       ELSE OnThrow(q, PoolExhausted)) EXCEPT !.pc = "done"]]
    /\ UNCHANGED <<conn, accounts>>

NextPool ==
    \E r \in Req :
        \/ ArrivePool(r)
        \/ \E c \in Conn : Connect(r, c)
        \/ \E c \in Conn : PoolQueryCheckout(r, c)
        \/ WaitTick(r)
        \/ PoolTimeout(r)
        \/ Bind(r)
        \/ Query(r)
        \/ Recycle(r)

SpecPool == Init /\ [][NextPool]_vars

(***************************************************************************)
(* Progress: one request per slot, the pool resolves a checkout that stays *)
(* possible, and every statement sent returns or raises                    *)
(***************************************************************************)

NextLive ==
    \E r \in Req :
        \/ ArrivePool(r)
        \/ \E c \in Conn : Connect(r, c)
        \/ \E c \in Conn : PoolQueryCheckout(r, c)
        \/ Bind(r)
        \/ Query(r)

Fairness ==
    \A r \in Req :
        /\ WF_vars(\E c \in Conn : Connect(r, c))
        /\ WF_vars(\E c \in Conn : PoolQueryCheckout(r, c))
        /\ WF_vars(Bind(r))
        /\ WF_vars(Query(r))

SpecLive == Init /\ [][NextLive]_vars /\ Fairness

(***************************************************************************)
(* The users router: POST /users, PUT /users/:id and POST /login, none of  *)
(* them behind authMiddleware; every statement goes through pool.query     *)
(***************************************************************************)

\* res.status(status).json(body), kept with the request it answers
Reply(op, input, status, body) ==
    [op |-> op, input |-> input, status |-> status, body |-> body]

HasToken(body) == "token" \in DOMAIN body

\* POST /users with body { email, password, full_name, avatar_url }
PostUsers(email, password, full_name, avatar_url) ==
    LET input == [email |-> email, password |-> password]
        existing == SelectIdByEmail(db.users, email)
    IN  /\ IF existing # {}
           THEN /\ reply' = Reply("POST /users", input, 400,
                                  ErrorBody("Email already exists"))
                /\ UNCHANGED db
           ELSE IF password = Undefined
           \* bcrypt.hash rejects without data: the catch block answers
           THEN /\ reply' = Reply("POST /users", input, 500,
                                  ErrorBody("Internal server error"))
                /\ UNCHANGED db
           ELSE /\ DOMAIN db.users # UserIds
                /\ LET id == NextId(db.users)
                       row == UserRow(email, PostPasswordHash(password),
                                      full_name, avatar_url)
                   IN  /\ db' = [db EXCEPT !.users = @ @@ (id :> row)]
                       /\ reply' = Reply("POST /users", input, 200,
                                         [json |-> "data",
                                          user |-> [id |-> id, email |-> email,
                                                    full_name |-> full_name]])
        /\ UNCHANGED <<req, conn, clock, issued>>

\* the users router's routes and whether authMiddleware stands before the
\* handler
UsersRouterGuards ==
    [op \in {"GET /users"} |-> TRUE]
    @@ [op \in {"POST /login", "POST /users", "PUT /users/:id"} |-> FALSE]

\* the middleware has not run: req.user is not set
NotGuarded == AuthResult(0, NoBody, NoUser, 0, 0)

\* what stands between the request and the handler of a users route
Guard(op, authHeader) ==
    IF UsersRouterGuards[op] THEN authMiddleware(authHeader) ELSE NotGuarded

\* PUT /users/:id with body { email, full_name, password, avatar_url }
PutUsersId(authHeader, id, email, full_name, password, avatar_url) ==
    LET input == [header |-> authHeader, id |-> id, email |-> email,
                  full_name |-> full_name, password |-> password,
                  avatar_url |-> avatar_url,
                  auth |-> Guard("PUT /users/:id", authHeader)]
        param == PutPasswordParam(password)
    IN  /\ IF id \notin DOMAIN db.users
           THEN /\ reply' = Reply("PUT /users/:id", input, 404,
                                  ErrorBody("User not found"))
                /\ UNCHANGED db
           ELSE LET old == db.users[id]
                    row == UserRow(Coalesce(email, old.email),
                                   CasePasswordHash(param, old.password_hash),
                                   Coalesce(full_name, old.full_name),
                                   Coalesce(avatar_url, old.avatar_url))
                IN  IF SelectIdByEmail(db.users, row.email) \ {id} # {}
                    \* unique_violation, err.code 23505
                    THEN /\ reply' = Reply("PUT /users/:id", input, 400,
                                           ErrorBody("Email already exists"))
                         /\ UNCHANGED db
                    ELSE /\ db' = [db EXCEPT !.users[id] = row]
                         \* RETURNING *
                         /\ reply' = Reply("PUT /users/:id", input, 200,
                                           [json |-> "data", id |-> id,
                                            email |-> row.email,
                                            full_name |-> row.full_name,
                                            avatar_url |-> row.avatar_url,
                                            password_hash |->
                                                row.password_hash])
        /\ UNCHANGED <<req, conn, clock, issued>>

\* POST /login with body { email, password }
PostLogin(email, password) ==
    LET input == [email |-> email, password |-> password]
        rows == SelectLoginRows(db, email)
        invalid == Reply("POST /login", input, 400,
                         ErrorBody("Invalid email or password"))
    IN  /\ IF rows = {}
           THEN reply' = invalid /\ UNCHANGED issued
           ELSE LET user == CHOOSE row \in rows : TRUE
                IN  IF password = Undefined
                    \* bcrypt.compare rejects without data
                    THEN /\ reply' = Reply("POST /login", input, 500,
                                           ErrorBody("Internal server error"))
                         /\ UNCHANGED issued
                    ELSE IF ~BcryptCompare(password, user.password_hash)
                    THEN reply' = invalid /\ UNCHANGED issued
                    ELSE LET token == JwtSign(LoginPayload(user), JWT_SECRET,
                                              SignOptions, clock)
                         IN  /\ issued' = {[token |-> token, at |-> clock,
                                            user |-> [id |-> user.id,
                                                      email |-> user.email]]}
                             /\ reply' = Reply("POST /login", input, 200,
                                   [json |-> "data", token |-> token,
                                    user |-> [id |-> user.id,
                                              email |-> user.email,
                                              full_name |-> user.full_name,
                                              plan_type |-> user.plan_type]])
        /\ UNCHANGED <<req, conn, db, clock>>

BodyEmails == Emails
BodyPasswords == Passwords \cup {Undefined, Empty}

NextUsers ==
    \/ \E email \in BodyEmails, password \in BodyPasswords,
          full_name \in Names, avatar_url \in Avatars :
          PostUsers(email, password, full_name, avatar_url)
    \/ \E id \in UserIds, email \in BodyEmails \cup {Undefined},
          password \in BodyPasswords :
          PutUsersId(NoHeader, id, email, Undefined, password, Undefined)
    \/ \E email \in BodyEmails, password \in BodyPasswords :
          PostLogin(email, password)

SpecUsers == Init /\ [][NextUsers]_vars

(***************************************************************************)
(* PUT /users/:id alone, with every field present or absent and with and   *)
(* without an Authorization header                                         *)
(***************************************************************************)

PutHeaders == {NoHeader, <<"Bearer", SP, "tokA">>}
PutEmails == {Undefined, "b@x.com", "c@x.com"}
PutNames == {Undefined, "Bob"}
PutAvatars == {Undefined, "b.png"}
PutPasswords == {Undefined, Empty, "pw2"}

NextPut ==
    \E authHeader \in PutHeaders, id \in UserIds, email \in PutEmails,
       full_name \in PutNames, password \in PutPasswords,
       avatar_url \in PutAvatars :
       PutUsersId(authHeader, id, email, full_name, password, avatar_url)

SpecPut == Init /\ [][NextPut]_vars

(***************************************************************************)
(* Tokens over time: login signs, the clock advances, and a caller         *)
(* presents a token to authMiddleware                                      *)
(***************************************************************************)

Tick ==
    /\ clock < MaxClock
    /\ clock' = clock + 1
    /\ UNCHANGED <<req, conn, db, issued, reply>>

\* the token login signed, that token with another account's id written into
\* its payload, and tokens signed for the accounts with a key the server
\* does not hold
PresentableTokens ==
    LET mine == {i.token : i \in issued}
    IN  mine
        \cup {[t EXCEPT !.payload.id = id] : t \in mine, id \in DOMAIN db.users}
        \cup {JwtSign([id |-> id, email |-> db.users[id].email], OtherSecret,
                      SignOptions, clock) : id \in DOMAIN db.users}

\* a request with Authorization: Bearer <token> reaches authMiddleware
Present(token) ==
    /\ reply' = [op |-> "authMiddleware", token |-> token, at |-> clock,
                 auth |-> authMiddlewareAt(token, clock)]
    /\ UNCHANGED <<req, conn, db, clock, issued>>

NextToken ==
    \/ \E email \in BodyEmails, password \in BodyPasswords :
          PostLogin(email, password)
    \/ Tick
    \/ \E token \in PresentableTokens : Present(token)

SpecToken == Init /\ [][NextToken]_vars

(***************************************************************************)
(* GET /reminders: the page and limit query parameters                     *)
(***************************************************************************)

\* longest page or limit query value drawn, in characters
MaxQueryLen == 2

QueryChars == {"-", "0", "1", "2", "x"}
Digits == {"0", "1", "2"}

\* req.query.page of a request without that parameter
NoQuery == <<"undefined">>

QueryValues ==
    {NoQuery} \cup UNION {[1..n -> QueryChars] : n \in 0..MaxQueryLen}

\* a JavaScript number: NaN or an integer
NaN == [nan |-> TRUE, n |-> 0]
Num(n) == [nan |-> FALSE, n |-> n]

DigitValue(ch) == CASE ch = "0" -> 0 [] ch = "1" -> 1 [] ch = "2" -> 2

\* the value of the longest run of digits s starts with
RECURSIVE DigitsPrefix(_, _)
DigitsPrefix(s, acc) ==
    IF s = <<>> \/ Head(s) \notin Digits THEN acc
    ELSE DigitsPrefix(Tail(s), acc * 10 + DigitValue(Head(s)))

\* parseInt(string): an optional sign, then digits up to the first other
\* character; NaN when no digit follows the sign
ParseInt(s) ==
    IF s = NoQuery THEN NaN
    ELSE LET neg == s # <<>> /\ Head(s) = "-"
             digits == IF neg THEN Tail(s) ELSE s
         IN  IF digits = <<>> \/ Head(digits) \notin Digits THEN NaN
             ELSE Num((IF neg THEN -1 ELSE 1) * DigitsPrefix(digits, 0))

DefaultPage == 1
DefaultLimit == 20

\* number || dflt: NaN and 0 are falsy
OrDefault(v, dflt) == IF v.nan \/ v.n = 0 THEN dflt ELSE v.n

\* const offset = (page - 1) * limit
Offset(page, limit) == (page - 1) * limit

\* the statement ... LIMIT $n OFFSET $m: PostgreSQL raises on a negative
\* LIMIT or OFFSET
SelectPageOk(limit, offset) == limit >= 0 /\ offset >= 0

\* GET /reminders?page=..&limit=.. once the binding is set, up to its answer
GetRemindersPage(pageParam, limitParam) ==
    LET page == OrDefault(ParseInt(pageParam), DefaultPage)
        limit == OrDefault(ParseInt(limitParam), DefaultLimit)
        offset == Offset(page, limit)
        ok == SelectPageOk(limit, offset)
    IN  /\ reply' = [op |-> "GET /reminders",
                     input |-> [page |-> pageParam, limit |-> limitParam],
                     page |-> page, limit |-> limit, offset |-> offset,
                     status |-> IF ok THEN 200 ELSE 500,
                     body |-> IF ok THEN DataBody
                              ELSE ErrorBody("Internal server error")]
        /\ UNCHANGED <<req, conn, db, clock, issued>>

NextPage ==
    \E pageParam \in QueryValues, limitParam \in QueryValues :
        GetRemindersPage(pageParam, limitParam)

SpecPage == Init /\ [][NextPage]_vars

(***************************************************************************)
(* Update by id: PATCH /reminders/:id/complete, PATCH                      *)
(* /notifications/:id/read and PUT /family/:id over a row-owned table      *)
(***************************************************************************)

UpdateRoutes ==
    {"PATCH /reminders/:id/complete", "PATCH /notifications/:id/read",
     "PUT /family/:id"}

\* req.params.id: the id of A's row, of B's row, and of no row
ParamIds == {1, 2, 3}

\* res.json(rows[0]) with the row, and with rows empty: res.json(undefined)
RowBody(id) == [json |-> "row", error |-> NoBody, id |-> id]
UndefinedBody == [json |-> "undefined", error |-> NoBody]

\* the rows UPDATE ... WHERE id = $1 reaches: the row with that id, if the
\* session's app.current_user_id owns it
Matched(items, id, guc) ==
    {i \in DOMAIN items : i = id /\ items[i].owner = CurrentSetting(guc)}

ArriveUpdate(r) ==
    ArriveAt(r, PoolHeaders, UpdateRoutes, {[id |-> id] : id \in ParamIds})

\* const { rows } = await client.query(`UPDATE ... WHERE id = $1 RETURNING *`);
\* res.json(rows[0]); finally { client.release() }
UpdateById(r) ==
    /\ req[r].pc = "run"
    /\ req[r].route \in UpdateRoutes
    /\ Program(req[r].route)[req[r].ip + 1] = "query"
    /\ \E ok \in BOOLEAN, err \in DbErrors :
          LET c == req[r].client
              q == [req[r] EXCEPT
                      !.ip = @ + 1,
                      !.stmts = Append(@, [op |-> "query", conn |-> c,
                                           ok |-> ok, value |-> Unset,
                                           setting |->
                                             CurrentSetting(conn[c].guc)])]
              rows == Matched(db.items, q.input.id, conn[c].guc)
              body == IF rows = {} THEN UndefinedBody ELSE RowBody(q.input.id)
          IN  IF ~ok THEN Continue(r, q, conn[c], "throw", err)
              ELSE /\ req' = [req EXCEPT ![r] =
                                Finally(Respond(q, RouteDef(q.route).okStatus,
                                                body), FALSE)]
                   /\ conn' = [conn EXCEPT ![c] = Release(conn[c])]
                   /\ db' = [db EXCEPT !.items =
                                [i \in DOMAIN @ |->
                                    IF i \in rows
                                    THEN [@[i] EXCEPT !.updated = TRUE]
                                    ELSE @[i]]]
                   /\ UNCHANGED <<clock, issued, reply>>

NextUpdate ==
    \E r \in Req :
        \/ ArriveUpdate(r)
        \/ \E c \in Conn : Connect(r, c)
        \/ Bind(r)
        \/ UpdateById(r)
        \/ Recycle(r)

SpecUpdate == Init /\ [][NextUpdate]_vars

(***************************************************************************)
(* POST /users, statement by statement, for concurrent requests            *)
(***************************************************************************)

CreatePasswords == {"pw1", Undefined}

\* the handler runs up to its first await: the existence check is sent
PostUsersArrive(r) ==
    /\ req[r].pc = "idle"
    /\ \E email \in BodyEmails, password \in CreatePasswords :
          req' = [req EXCEPT ![r] =
                    [NoRequest EXCEPT
                        !.pc = "check", !.route = "POST /users",
                        !.input = [email |-> email, password |-> password]]]
    /\ UNCHANGED <<conn, accounts>>

\* what the catch block of POST /users answers
PostUsersCatch(q) == Respond(q, 500, ErrorBody("Internal server error"))

\* existing = await pool.query('SELECT id FROM users WHERE email = $1');
\* if (existing.rows.length) return 400; then bcrypt.hash, and the INSERT is
\* sent
PostUsersCheck(r) ==
    /\ req[r].pc = "check"
    /\ LET q == req[r]
           existing == SelectIdByEmail(db.users, q.input.email)
           done == IF existing # {}
                   THEN Respond(q, 400, ErrorBody("Email already exists"))
                   ELSE PostUsersCatch(q)
       IN  req' = [req EXCEPT ![r] =
                     IF existing # {} \/ q.input.password = Undefined
                     THEN [done EXCEPT !.pc = "done"]
                     ELSE [q EXCEPT !.pc = "insert"]]
    /\ UNCHANGED <<conn, accounts>>

\* the INSERT runs: email is UNIQUE, so the row is added or the statement
\* raises unique_violation and the catch block answers
PostUsersInsert(r) ==
    /\ req[r].pc = "insert"
    /\ LET q == req[r]
       IN  IF SelectIdByEmail(db.users, q.input.email) # {}
           THEN /\ req' = [req EXCEPT ![r] =
                             [PostUsersCatch(q) EXCEPT !.pc = "done"]]
                /\ UNCHANGED db
           ELSE /\ DOMAIN db.users # UserIds
                /\ db' = [db EXCEPT !.users =
                             @ @@ (NextId(@) :>
                                   UserRow(q.input.email,
                                           PostPasswordHash(q.input.password),
                                           "Ann", "a.png"))]
                /\ req' = [req EXCEPT ![r] =
                             [Respond(q, 200, DataBody) EXCEPT !.pc = "done"]]
    /\ UNCHANGED <<conn, clock, issued, reply>>

NextCreate ==
    \E r \in Req :
        \/ PostUsersArrive(r)
        \/ PostUsersCheck(r)
        \/ PostUsersInsert(r)
        \/ Recycle(r)

SpecCreate == Init /\ [][NextCreate]_vars

(***************************************************************************)
(* Properties                                                              *)
(***************************************************************************)

\* the requests in the slots
Live == {r \in Req : req[r].pc # "idle"}

\* positions of the statements of kind op a request has sent
Sent(r, op) == {i \in DOMAIN req[r].stmts : req[r].stmts[i].op = op}

\* headers that carry a token signed for a user and not expired, and that user
ValidHeader(h) == h \in {<<"Bearer", SP, "tokA">>, <<"Bearer", SP, "tokB">>}
TokenOwner(h) == IF h = <<"Bearer", SP, "tokA">> THEN "A" ELSE "B"

\* C1: a resource query issued for verified principal B never runs while the
\* connection's binding is the id of a different principal
C1_TenantIsolation ==
    \A r \in Live : \A i \in Sent(r, "query") :
        req[r].stmts[i].setting \notin Principals \ {req[r].user.id}

\* C2: a connection that is idle in the pool carries no principal binding
C2_NoResidualBindingAtRelease ==
    \A c \in Conn : ~conn[c].busy => CurrentSetting(conn[c].guc) = Unset

\* C3: once a handler's bind statement has succeeded for P, every later query
\* of that handler runs with the connection's binding equal to P.id
C3_BindingStaysInForce ==
    \A r \in Live : \A i \in Sent(r, "bind") : \A j \in Sent(r, "query") :
        (i < j /\ req[r].stmts[i].ok)
            => req[r].stmts[j].setting = req[r].stmts[i].value

\* C4: in a handler that checks out a client with pool.connect(), the first
\* statement after checkout is the bind statement for req.user.id, every
\* statement runs on the checked-out client, and no resource query is sent
\* before the bind statement has completed
C4_BindBeforeQuery ==
    \A r \in Live :
        (UsesConnect(req[r].route) /\ req[r].stmts # <<>>) =>
            /\ req[r].stmts[1].op = "bind"
            /\ req[r].stmts[1].value = req[r].user.id
            /\ req[r].client \in Conn
            /\ \A i \in DOMAIN req[r].stmts :
                  req[r].stmts[i].conn = req[r].client
            /\ \A j \in Sent(r, "query") :
                  \E i \in Sent(r, "bind") : i < j /\ req[r].stmts[i].ok

C4_Witness ==
    \E r \in Live :
        /\ UsesConnect(req[r].route)
        /\ req[r].pc = "done"
        /\ Len(req[r].stmts) = 2
        /\ req[r].stmts[2].op = "query"

\* C5: every checkout is released exactly once on every exit path, also when
\* the caller aborted the request; the idle connections of the pool are all
\* but those held by running handlers, so all of them once the requests are over
C5_ReleaseExactlyOnce ==
    /\ \A r \in Live :
          /\ req[r].checkouts <= 1
          /\ req[r].pc = "run" => req[r].checkouts = 1 /\ req[r].releases = 0
          /\ req[r].pc = "done" => req[r].releases = req[r].checkouts
    /\ Cardinality({c \in Conn : ~conn[c].busy})
          = PoolSize - Cardinality({r \in Req : req[r].pc = "run"})

C5_Witness ==
    /\ \E r \in Live :
          /\ req[r].pc = "done"
          /\ req[r].aborted
          /\ req[r].rejected
          /\ req[r].checkouts = 1
          /\ req[r].releases = 1
    /\ \A c \in Conn : ~conn[c].busy

\* a header the middleware has to turn away unverified: no scheme, another
\* scheme keyword, more than two parts, or an empty token
MalformedHeader(h) ==
    /\ h # NoHeader
    /\ \/ Len(Split(h)) # 2
       \/ Split(h)[1] # <<"Bearer">>
       \/ Split(h)[2] = <<>>

\* C6: a request with a malformed Authorization header is rejected without
\* jwt.verify being called
C6_MalformedRejectedBeforeVerify ==
    \A r \in Live :
        MalformedHeader(req[r].header) =>
            req[r].status = 401 /\ req[r].verifyCalls = 0

\* C7: two requests whose tokens fail verification get the same response,
\* whatever the reason of the failure
C7_FailureReasonsCollapsed ==
    \A r1, r2 \in Live :
        (/\ req[r1].verifyCalls = 1 /\ req[r1].nextCalls = 0
         /\ req[r2].verifyCalls = 1 /\ req[r2].nextCalls = 0)
            => /\ req[r1].status = req[r2].status
               /\ req[r1].body = req[r2].body

\* C8: a request whose header is absent, malformed or carries a token that
\* fails verification gets exactly one 401 response with a JSON error body, is
\* never passed on by next(), and no checkout, bind statement or query is done
\* for it; the middleware itself touches no connection
C8_RejectedNeverReachDataTier ==
    \A r \in Live :
        /\ ~ValidHeader(req[r].header) =>
              /\ req[r].pc = "done"
              /\ req[r].responses = 1
              /\ req[r].status = 401
              /\ req[r].body.json = "error"
              /\ req[r].nextCalls = 0
              /\ req[r].checkouts = 0
              /\ req[r].client = NoConn
              /\ req[r].stmts = <<>>
        /\ req[r].pc = "connect" =>
              req[r].checkouts = 0 /\ req[r].stmts = <<>>

C8_Witness ==
    \E r1, r2 \in Live :
        /\ req[r1].status = 401 /\ req[r1].verifyCalls = 1
        /\ req[r2].status = 401 /\ req[r2].verifyCalls = 0
        /\ req[r2].header # NoHeader

\* C9: req.user is set and next() is called, once, exactly when jwt.verify
\* succeeded on the presented token, and every bind statement is given the id
\* of that verified payload, never an id the request supplied
C9_PrincipalProvenance ==
    \A r \in Live :
        /\ req[r].user # NoUser <=> ValidHeader(req[r].header)
        /\ req[r].nextCalls = IF ValidHeader(req[r].header) THEN 1 ELSE 0
        /\ ValidHeader(req[r].header) =>
              /\ req[r].verifyCalls = 1
              /\ req[r].user.id = TokenOwner(req[r].header)
        /\ \A i \in Sent(r, "bind") :
              req[r].stmts[i].value = TokenOwner(req[r].header)

C9_Witness ==
    \E r \in Live :
        /\ req[r].header = <<"Bearer", SP, "tokB">>
        /\ \E i \in Sent(r, "bind") :
              req[r].stmts[i].ok /\ req[r].stmts[i].value = "B"

\* C10: when the bind statement raises, the handler sends no further statement
\* for that request and the request does not end with a success response
C10_BindFailureFatal ==
    \A r \in Live : \A i \in Sent(r, "bind") :
        ~req[r].stmts[i].ok =>
            /\ Len(req[r].stmts) = i
            /\ req[r].pc = "done"
            /\ req[r].status \notin {200, 201}

C10_Witness ==
    \E r1, r2 \in Live :
        /\ req[r1].stmts # <<>> /\ ~req[r1].stmts[1].ok
        /\ req[r1].status = 500
        /\ req[r2].stmts # <<>> /\ ~req[r2].stmts[1].ok
        /\ req[r2].rejected

\* requests one of whose statements (the bind statement or a query) raised
Failed(r) == \E i \in DOMAIN req[r].stmts : ~req[r].stmts[i].ok

\* requests whose checkout itself failed: passed on by the middleware and
\* over without a connection
CheckoutFailed(r) ==
    req[r].pc = "done" /\ req[r].nextCalls = 1 /\ req[r].checkouts = 0

\* C11: when the bind statement or a query of a handler that checked out a
\* connection raises, the error response or the rejection of the handler's
\* promise comes only after client.release() of that checkout
C11_ErrorAfterRelease ==
    \A r \in Live :
        (UsesConnect(req[r].route) /\ Failed(r) /\ req[r].pc = "done") =>
            \A i \in DOMAIN req[r].events :
                req[r].events[i] \in {"respond", "reject"} =>
                    \E j \in 1..(i - 1) : req[r].events[j] = "release"

\* C12: a request whose bind statement or query raised gets exactly one
\* response, with a 5xx status
C12_StorageFailureIsServerError ==
    \A r \in Live :
        (Failed(r) /\ req[r].pc = "done") =>
            req[r].responses = 1 /\ req[r].status \in 500..599

\* C13: two requests to the same route that fail with whatever database
\* errors get the same response body
C13_NoErrorTextInBody ==
    \A r1, r2 \in Live :
        (/\ req[r1].route = req[r2].route
         /\ Failed(r1) /\ req[r1].pc = "done"
         /\ Failed(r2) /\ req[r2].pc = "done")
            => req[r1].body = req[r2].body

\* C18: every resource query of an authenticated request runs on a connection
\* the handler checked out itself and on which it first ran the bind statement
\* for req.user.id
C18_QueryOnlyAfterOwnBind ==
    \A r \in Live : \A j \in Sent(r, "query") :
        /\ UsesConnect(req[r].route)
        /\ \E i \in Sent(r, "bind") :
              /\ i < j
              /\ req[r].stmts[i].ok
              /\ req[r].stmts[i].conn = req[r].stmts[j].conn
              /\ req[r].stmts[i].value = req[r].user.id

\* C19: when pool.connect() fails the handler does not try again, sends no
\* statement, releases nothing, and the caller gets a server-error response
C19_CheckoutFailureSurfaced ==
    \A r \in Live :
        (UsesConnect(req[r].route) /\ CheckoutFailed(r)) =>
            /\ req[r].stmts = <<>>
            /\ req[r].releases = 0
            /\ req[r].client = NoConn
            /\ req[r].responses = 1
            /\ req[r].status \in 500..599

\* C20: a request waiting in pool.connect() never waits longer than the
\* pool's wait window; when the window has passed without a connection it is
\* failed with the pool-exhausted condition, having checked nothing out
C20_BoundedWait ==
    \A r \in Live :
        /\ req[r].waited <= WaitWindow
        /\ (req[r].pc = "connect" /\ req[r].waited = WaitWindow) =>
              ENABLED PoolTimeout(r)
        /\ (\E i \in DOMAIN req[r].events :
                req[r].events[i] = "pool_exhausted") =>
              /\ req[r].pc = "done"
              /\ req[r].waited = WaitWindow
              /\ req[r].checkouts = 0
              /\ req[r].stmts = <<>>

C20_Witness ==
    \E r1, r2 \in Live :
        /\ req[r1].pc = "run"
        /\ req[r2].pc = "done"
        /\ req[r2].events = <<"pool_exhausted", "reject">>
        /\ \A c \in Conn : conn[c].busy

\* the answer is authMiddleware's, to the token login signed last
PresentedIssued(i) == reply.op = "authMiddleware" /\ reply.token = i.token

Admitted(auth) == auth.status = 0 /\ auth.nextCalls = 1

RejectedExpired(auth) ==
    /\ auth.status = 401
    /\ auth.error = "Invalid token: jwt expired"
    /\ auth.nextCalls = 0

\* C14 as stated: a login token signed at clock reading t0 with time-to-live d
\* is admitted by authMiddleware at every time before t0 + d and rejected as
\* expired at every time from t0 + d on.
C14_ExpiryAtIssuePlusTtl ==
    \A i \in issued :
        PresentedIssued(i) =>
            LET expiry == i.at + ExpiresIn * TicksPerSecond
            IN  /\ reply.at < expiry => Admitted(reply.auth)
                /\ reply.at >= expiry => RejectedExpired(reply.auth)

\* C14 amended: with both clock readings taken in whole seconds, a login token
\* signed in second s0 with time-to-live d is admitted in every second before
\* s0 + d, the second of issue included, and answered 401 as expired in every
\* second from s0 + d on; when it is rejected as expired, a token signed now
\* for the same principal is admitted.
C14_ExpiryInWholeSeconds ==
    \A i \in issued :
        PresentedIssued(i) =>
            LET expiry == Seconds(i.at) + ExpiresIn
            IN  /\ Seconds(reply.at) < expiry => Admitted(reply.auth)
                /\ Seconds(reply.at) >= expiry =>
                      /\ RejectedExpired(reply.auth)
                      /\ Admitted(authMiddlewareAt(
                            JwtSign(i.user, JWT_SECRET, SignOptions, reply.at),
                            reply.at))

\* a token signed half a second into a second is presented when its
\* time-to-live has not yet passed and is answered as expired
C14_Witness ==
    \E i \in issued :
        /\ PresentedIssued(i)
        /\ i.at % TicksPerSecond # 0
        /\ reply.at < i.at + ExpiresIn * TicksPerSecond
        /\ RejectedExpired(reply.auth)

\* C15: presented before its expiry, the token login signed for a user gives
\* req.user that user's id and email; a token whose signature is not the
\* server secret's over its payload is answered 401 and not passed on.
C15_TokenRoundTrip ==
    reply.op = "authMiddleware" =>
        /\ \A i \in issued :
              reply.token = i.token
              /\ Seconds(reply.at) < i.token.payload.exp =>
                  /\ Admitted(reply.auth)
                  /\ reply.auth.user.id = i.user.id
                  /\ reply.auth.user.email = i.user.email
        /\ reply.token.sig # Signature(reply.token.payload, JWT_SECRET) =>
              /\ reply.auth.status = 401
              /\ reply.auth.nextCalls = 0
              /\ reply.auth.user = NoUser

\* the token login signed for user 2 is presented and admitted
C15_Witness ==
    \E i \in issued :
        /\ PresentedIssued(i)
        /\ i.user = [id |-> 2, email |-> "b@x.com"]
        /\ Admitted(reply.auth)
        /\ reply.auth.user.email = "b@x.com"

\* the submitted password verifies against the stored hash of a user with
\* the submitted email
ValidCredentials(input) ==
    \E id \in DOMAIN db.users :
        /\ db.users[id].email = input.email
        /\ BcryptCompare(input.password, db.users[id].password_hash)

\* C16: POST /login answers with a token exactly when a user with the given
\* email exists and the password verifies against that user's stored hash;
\* the answer then carries user with id and email and neither password nor
\* password_hash; a wrong password is answered with a rejection and no token.
C16_LoginOutcome ==
    reply.op = "POST /login" =>
        /\ HasToken(reply.body) <=> ValidCredentials(reply.input)
        /\ HasToken(reply.body) =>
              /\ {"id", "email"} \subseteq DOMAIN reply.body.user
              /\ DOMAIN reply.body.user \cap {"password", "password_hash"} = {}
        /\ ~ValidCredentials(reply.input) =>
              reply.status >= 400 /\ ~HasToken(reply.body)

\* the rows of users whose password_hash a step wrote
Written ==
    {id \in DOMAIN db'.users :
        id \notin DOMAIN db.users
        \/ db'.users[id].password_hash # db.users[id].password_hash}

\* C17: every value POST /users or PUT /users/:id writes to
\* users.password_hash is the bcrypt hash of the password the request
\* submitted and not that password itself, and a PUT without a password
\* leaves every stored hash as it was.
C17_OnlyHashesPersisted ==
    [][/\ \A id \in Written :
             /\ db'.users[id].password_hash =
                    BcryptHash(reply'.input.password, BcryptRounds)
             /\ db'.users[id].password_hash # Plain(reply'.input.password)
       /\ reply'.op = "PUT /users/:id" /\ reply'.input.password = Undefined
             => Written = {}]_vars

\* a PUT has replaced user 1's seeded hash and POST /users has stored one
C17_Witness ==
    /\ 3 \in DOMAIN db.users
    /\ db.users[3].password_hash.alg = "bcrypt"
    /\ db.users[1].password_hash = BcryptHash("pw2", BcryptRounds)
    /\ reply.op = "PUT /users/:id"
    /\ reply.status = 200
    /\ reply.input.password = "pw2"
    /\ reply.input.id = 1

\* the rows of users a step changed
Changed ==
    {id \in DOMAIN db.users : db'.users[id] # db.users[id]}

\* C24: a request that changes an existing row of users has passed
\* authMiddleware with a principal whose id is the row's id; a request without
\* an Authorization header changes no row's email or password_hash.
C24_UserRowsChangedByOwnerOnly ==
    [][\A id \in Changed :
          /\ reply'.input.auth.nextCalls = 1
          /\ reply'.input.auth.user.id = id
          /\ reply'.input.header # NoHeader]_vars

\* the login answer a caller sees: status and body
Visible(r) == [status |-> r.status, body |-> r.body]

\* the answer POST /login gives for an email no users row has
UnknownEmailAnswer ==
    [status |-> 400, body |-> ErrorBody("Invalid email or password")]

\* C26: the status and body POST /login answers with for a known email whose
\* password does not verify are those it answers with for an unknown email.
C26_LoginHidesRegistration ==
    reply.op = "POST /login" /\ ~ValidCredentials(reply.input) =>
        Visible(reply) = UnknownEmailAnswer

\* C27: PUT /users/:id leaves every field of the row that the body does not
\* carry as it was, changes password_hash only for a non-empty password, and
\* changes no other row; with no such row it answers 404, with another
\* user's email 400 'Email already exists', and then no row changes.
C27_PartialUpdateFrame ==
    [][reply'.op = "PUT /users/:id" =>
        LET in == reply'.input
            absent(v) == v = Undefined
        IN  /\ DOMAIN db'.users = DOMAIN db.users
            /\ Changed \subseteq {in.id}
            /\ \A id \in Changed :
                  /\ absent(in.email) =>
                        db'.users[id].email = db.users[id].email
                  /\ absent(in.full_name) =>
                        db'.users[id].full_name = db.users[id].full_name
                  /\ absent(in.avatar_url) =>
                        db'.users[id].avatar_url = db.users[id].avatar_url
                  /\ ~Truthy(in.password) =>
                        db'.users[id].password_hash =
                            db.users[id].password_hash
            /\ in.id \notin DOMAIN db.users =>
                  reply'.status = 404 /\ Changed = {}
            /\ (/\ in.id \in DOMAIN db.users
                /\ ~absent(in.email)
                /\ SelectIdByEmail(db.users, in.email) \ {in.id} # {}) =>
                  /\ reply'.status = 400
                  /\ reply'.body = ErrorBody("Email already exists")
                  /\ Changed = {}
            /\ reply'.status = 200 =>
                  /\ ~absent(in.email) => db'.users[in.id].email = in.email
                  /\ ~absent(in.full_name) =>
                        db'.users[in.id].full_name = in.full_name
                  /\ ~absent(in.avatar_url) =>
                        db'.users[in.id].avatar_url = in.avatar_url
                  /\ Truthy(in.password) =>
                        db'.users[in.id].password_hash =
                            BcryptHash(in.password, BcryptRounds)]_vars

\* a PUT with only full_name in its body has renamed user 2, whose email,
\* avatar and hash a PUT before it had set and it has kept
C27_Witness ==
    /\ reply.op = "PUT /users/:id"
    /\ reply.status = 200
    /\ reply.input.id = 2
    /\ reply.input.email = Undefined
    /\ reply.input.password = Undefined
    /\ reply.input.avatar_url = Undefined
    /\ db.users[2] = UserRow("c@x.com", BcryptHash("pw2", BcryptRounds),
                             "Bob", "b.png")
    /\ db.users[1] = SeedUsers[1]

\* the query value is absent or holds no digit
NonNumeric(s) == s = NoQuery \/ \A i \in DOMAIN s : s[i] \notin Digits

\* the query value is an optional minus sign and digits, nothing else
IntegerValued(s) ==
    /\ s # NoQuery
    /\ s # <<>>
    /\ LET digits == IF Head(s) = "-" THEN Tail(s) ELSE s
       IN  digits # <<>> /\ \A i \in DOMAIN digits : digits[i] \in Digits

\* an integer written with zeros only
Zero(s) == IntegerValued(s) /\ \A i \in DOMAIN s : s[i] \in {"-", "0"}

\* C28: GET /reminders uses page 1 for an absent, non-numeric or zero page and
\* limit 20 for an absent, non-numeric or zero limit, computes offset as
\* (page - 1) * limit, and for integer-valued parameters sends a LIMIT and an
\* OFFSET that are not negative, so that the query does not fail.
C28_PaginationArithmetic ==
    reply.op = "GET /reminders" =>
        /\ NonNumeric(reply.input.page) \/ Zero(reply.input.page) =>
              reply.page = DefaultPage
        /\ NonNumeric(reply.input.limit) \/ Zero(reply.input.limit) =>
              reply.limit = DefaultLimit
        /\ reply.offset = (reply.page - 1) * reply.limit
        /\ (\A s \in {reply.input.page, reply.input.limit} :
                NonNumeric(s) \/ IntegerValued(s)) =>
              /\ reply.limit >= 0
              /\ reply.offset >= 0
              /\ reply.status = 200

\* the requests that hold connection c: checked out and not yet released
Holders(c) == {r \in Req : req[r].pc = "run" /\ req[r].client = c}

\* the requests that sent a statement in this step
Senders == {r \in Req : Len(req'[r].stmts) > Len(req[r].stmts)}

\* C23: a checked-out connection is held by exactly one request and an idle
\* one by none; every statement, of a handler's own client or of pool.query,
\* runs on a connection its sender alone holds, and a connection's binding
\* changes only in a step of the request that holds it.
C23_ConnectionExclusive ==
    /\ [](\A c \in Conn :
            Cardinality(Holders(c)) = IF conn[c].busy THEN 1 ELSE 0)
    /\ [][/\ \A r \in Senders :
               Holders(req'[r].stmts[Len(req'[r].stmts)].conn) = {r}
          /\ \A c \in Conn :
               conn'[c].guc # conn[c].guc =>
                   \E r \in Senders : Holders(c) = {r}]_vars

\* A's request holds the connection with its binding set while B's request
\* to GET /users waits for pool.query to find one
C23_Witness ==
    /\ req[1].pc = "run"
    /\ req[1].user.id = "A"
    /\ Len(req[1].stmts) = 1
    /\ conn[req[1].client].busy
    /\ CurrentSetting(conn[req[1].client].guc) = "A"
    /\ req[2].pc = "connect"
    /\ req[2].user.id = "B"
    /\ req[2].route = "GET /users"

\* C25: a handler holds at most one connection and asks the pool for none
\* while it holds one; with the pool weakly fair and every statement
\* returning or raising, a request that waits for a connection gets one and
\* a request that got one releases it.
C25_NoHoldAndWaitProgress ==
    /\ [](\A r \in Req :
            /\ req[r].checkouts - req[r].releases \in {0, 1}
            /\ req[r].pc = "connect" => req[r].checkouts = 0
            /\ req[r].checkouts <= 1)
    /\ \A r \in Req :
          /\ req[r].pc = "connect" ~> req[r].checkouts = 1
          /\ req[r].checkouts = 1 ~> req[r].releases = 1

\* the second request got the connection after the first had released it
C25_Witness ==
    /\ req[1].pc = "done"
    /\ req[1].releases = 1
    /\ req[2].pc = "run"
    /\ req[2].checkouts = 1
    /\ req[2].client = req[1].client

\* the requests to POST /users that are answered in this step
Answered ==
    {r \in Req : /\ req[r].route = "POST /users"
                 /\ req[r].pc \in {"check", "insert"}
                 /\ req'[r].pc = "done"}

\* C21: a POST /users request whose email belongs to a user when it is
\* answered, also to one a concurrent request inserted after this request's
\* existence check, is answered 400 'Email already exists'; no two users rows
\* have the same email.
C21_DuplicateEmailRejected ==
    /\ [](\A email \in Emails :
            Cardinality(SelectIdByEmail(db.users, email)) <= 1)
    /\ [][\A r \in Answered :
              SelectIdByEmail(db.users, req[r].input.email) # {} =>
                  /\ req'[r].status = 400
                  /\ req'[r].body = ErrorBody("Email already exists")]_vars

\* the requests whose UPDATE returned in this step
Updated ==
    {r \in Req : /\ req[r].route \in UpdateRoutes
                 /\ req[r].pc = "run"
                 /\ req'[r].pc = "done"
                 /\ req'[r].stmts[Len(req'[r].stmts)].op = "query"
                 /\ req'[r].stmts[Len(req'[r].stmts)].ok}

\* C22: when the id matches no row the caller can see, the update routes
\* answer 404 and no row is modified; they answer 200 only when the targeted
\* row, and no other, was updated, and the body is that row.
C22_NotFoundOnUpdate ==
    [][\A r \in Updated :
          LET rows == Matched(db.items, req[r].input.id,
                              conn[req[r].client].guc)
          IN  /\ rows = {} =>
                    req'[r].status = 404 /\ db'.items = db.items
              /\ req'[r].status = 200 =>
                    /\ rows = {req[r].input.id}
                    /\ \A i \in DOMAIN db.items :
                          db'.items[i] # db.items[i] => i \in rows
                    /\ req'[r].body = RowBody(req[r].input.id)]_vars

====
